---- MODULE Spec2Model ----
(***************************************************************************)
(* Model of the PR review agent (app/pr_review_agent.py): the patch        *)
(* organizer, the batch scheduler and the review workflow graph.           *)
(*                                                                         *)
(* A text is modelled by a name; count_tokens gives its tiktoken length.   *)
(* A model reply is modelled as a term naming the call that produced it    *)
(* (the model is invoked with temperature 0).                              *)
(***************************************************************************)
EXTENDS Integers, Sequences, FiniteSets, TLC

VARIABLES
    pc,                   \* the graph node about to run, or a terminal tag
    diff,                 \* the diff listing handed to generate_pr_review
    files,                \* PRState.files
    deleted_files,        \* PRState.deleted_files
    is_long_pr,           \* PRState.is_long_pr
    organized_patches,    \* PRState.organized_patches (insertion-ordered dict)
    other_modified_files, \* PRState.other_modified_files
    current_batch,        \* PRState.current_batch
    review_segments,      \* PRState.review_segments
    other_files_summary,  \* PRState.other_files_summary
    final_review,         \* PRState.final_review
    llm_log,              \* history: every llm.invoke call, in order
    steps,                \* history: number of prepare_next_batch calls
    returned,             \* what review_pr gave back to its caller
    summary_chunks,       \* history: the chunks built in summarize_other_files
    local_summaries,      \* summarize_other_files: the local list of replies so far
    run_summaries,        \* the same local list, one per concurrent run
    task_status,          \* AnalysisTask.status of the task being run
    task_result,          \* AnalysisTask.result of the task being run
    rpc,                  \* two concurrent runs: the node each run is at
    rdiff,                \* two concurrent runs: the diff listing of each run
    store                 \* two concurrent runs: the PRState objects

vars == <<pc, diff, files, deleted_files, is_long_pr, organized_patches,
          other_modified_files, current_batch, review_segments,
          other_files_summary, final_review, llm_log, steps, returned,
          summary_chunks, task_status, task_result, rpc, rdiff, store, run_summaries, local_summaries>>

(***************************************************************************)
(* Bounds                                                                  *)
(***************************************************************************)
MaxFiles == 3

\* Longest filename of the language-inference inputs.
MaxNameLen == 4

MaxSteps == MaxFiles + 3

(***************************************************************************)
(* Program constants                                                       *)
(***************************************************************************)
TOKEN_LIMIT == 4000

LONG_PR_THRESHOLD == 3000

BATCH_SIZE == 2000

OTHER_FILES_CHUNK_SIZE == 1500

language_map ==
    << << <<"p", "y">>,      "python" >>,
       << <<"j", "s">>,      "javascript" >>,
       << <<"j", "s", "x">>, "javascript" >>,
       << <<"t", "s">>,      "typescript" >>,
       << <<"t", "s", "x">>, "typescript" >>,
       << <<"m", "d">>,      "markdown" >>,
       << <<"t", "x", "t">>, "text" >> >>

(***************************************************************************)
(* Inputs: texts, filenames, diff listings                                 *)
(***************************************************************************)
\* The patch texts of the inputs; "" is the empty text.
Texts == {"", "t1500", "t2000", "t3001", "t5000"}

\* A diff entry without a "patch" key.
Absent == "absent"

Stems == <<"a", "b", "c", "d", "e", "f">>

Extensions == { <<".", "p", "y">>, <<".", "j", "s">> }

Statuses == {"modified", "deleted"}

\* Entry i of a listing is named by stem i: filenames are unique in a listing.
\* What the "patch" key of an entry may hold, by status.
PatchesOf(status) ==
    IF status = "deleted" THEN {Absent, "t1500"}
    ELSE (Texts \ {""}) \cup {Absent}

DiffEntries(i) ==
    UNION { { [filename |-> <<Stems[i]>> \o e, patch |-> p, status |-> s] :
                e \in Extensions, p \in PatchesOf(s) } : s \in Statuses }

RECURSIVE DiffsOfLen(_)
DiffsOfLen(n) ==
    IF n = 0 THEN { <<>> }
    ELSE { Append(d, e) : d \in DiffsOfLen(n - 1), e \in DiffEntries(n) }

Diffs == UNION { DiffsOfLen(n) : n \in 0..MaxFiles }

(***************************************************************************)
(* Pure helpers                                                            *)
(***************************************************************************)
count_tokens(text) ==
    CASE text = ""      -> 0
      [] text = "t800"  -> 800
      [] text = "t1500" -> 1500
      [] text = "t2000" -> 2000
      [] text = "t3001" -> 3001
      [] text = "t5000" -> 5000

endswith(s, suffix) ==
    /\ Len(s) >= Len(suffix)
    /\ SubSeq(s, Len(s) - Len(suffix) + 1, Len(s)) = suffix

infer_language(filename) ==
    LET hits == { k \in 1..Len(language_map) : endswith(filename, language_map[k][1]) }
    IN  IF hits = {} THEN "unknown"
        ELSE language_map[CHOOSE k \in hits : \A j \in hits : k <= j][2]

FilePatch(filename, content, language) ==
    [filename |-> filename, content |-> content, language |-> language, tokens |-> 0]

\* file.get("patch", "")
get_patch(entry) == IF entry.patch = Absent THEN "" ELSE entry.patch

RECURSIVE SumTokens(_)
SumTokens(ps) ==
    IF ps = <<>> THEN 0 ELSE ps[1].tokens + SumTokens(Tail(ps))

RECURSIVE SumCounted(_)
SumCounted(ps) ==
    IF ps = <<>> THEN 0 ELSE count_tokens(ps[1].content) + SumCounted(Tail(ps))

Names(ps) == [i \in 1..Len(ps) |-> ps[i].filename]

(***************************************************************************)
(* generate_pr_review: building the FilePatch records                      *)
(***************************************************************************)
\* The FilePatch records appended to `patches` for a diff listing.
BuildPatches(d) ==
    [i \in 1..Len(d) |->
        FilePatch(d[i].filename, get_patch(d[i]), infer_language(d[i].filename))]

\* The filenames appended to `deleted_files` for a diff listing.
BuildDeleted(d) ==
    LET idx == { i \in 1..Len(d) : d[i].status = "deleted" }
        RECURSIVE Pick(_)
        Pick(i) == IF i > Len(d) THEN <<>>
                   ELSE IF i \in idx THEN <<d[i].filename>> \o Pick(i + 1)
                   ELSE Pick(i + 1)
    IN  Pick(1)

(***************************************************************************)
(* PRProcessor.organize_patches                                            *)
(***************************************************************************)
\* First pass: patch.tokens = count_tokens(patch.content), in place.
CountAll(patches) ==
    [i \in 1..Len(patches) |->
        [patches[i] EXCEPT !.tokens = count_tokens(patches[i].content)]]

RECURSIVE InsertDesc(_, _)
InsertDesc(p, s) ==
    IF s = <<>> THEN <<p>>
    ELSE IF s[1].tokens >= p.tokens THEN <<s[1]>> \o InsertDesc(p, Tail(s))
    ELSE <<p>> \o s

\* sorted(patches, key=tokens, reverse=True): stable, equal keys keep input order.
RECURSIVE sorted_desc(_)
sorted_desc(ps) ==
    IF ps = <<>> THEN <<>>
    ELSE InsertDesc(ps[Len(ps)], sorted_desc(SubSeq(ps, 1, Len(ps) - 1)))

BucketIndex(buckets, language) ==
    { k \in 1..Len(buckets) : buckets[k].language = language }

\* Variant: the bucket is assigned a fresh one-element list instead of appended to.
bucket_append_replace(buckets, p) ==
    LET ks == BucketIndex(buckets, p.language)
    IN  IF ks = {}
        THEN Append(buckets, [language |-> p.language, patches |-> <<p>>])
        ELSE LET k == CHOOSE x \in ks : TRUE
             IN  [buckets EXCEPT ![k].patches = <<p>>]

\* language_patches[patch.language].append(patch) on a defaultdict(list).
bucket_append(buckets, p) ==
    LET ks == BucketIndex(buckets, p.language)
    IN  IF ks = {}
        THEN Append(buckets, [language |-> p.language, patches |-> <<p>>])
        ELSE LET k == CHOOSE x \in ks : TRUE
             IN  [buckets EXCEPT ![k].patches = Append(@, p)]

\* Variant: the first patch considered is admitted whatever its size.
fits_token_limit_first(total_tokens, tokens) ==
    total_tokens = 0 \/ total_tokens + tokens <= TOKEN_LIMIT

\* Variant: a patch that would fill the limit exactly is not admitted.
fits_token_limit_strict(total_tokens, tokens) ==
    total_tokens + tokens < TOKEN_LIMIT

\* The admit test of the second pass.
fits_token_limit(total_tokens, tokens) ==
    total_tokens + tokens <= TOKEN_LIMIT

RECURSIVE Distribute(_, _, _, _)
Distribute(sorted_patches, buckets, total_tokens, other_modified) ==
    IF sorted_patches = <<>>
    THEN [organized |-> buckets, other |-> other_modified]
    ELSE LET patch == sorted_patches[1]
         IN  IF fits_token_limit(total_tokens, patch.tokens)
             THEN Distribute(Tail(sorted_patches), bucket_append(buckets, patch),
                             total_tokens + patch.tokens, other_modified)
             ELSE Distribute(Tail(sorted_patches), buckets,
                             total_tokens, Append(other_modified, patch))

\* Variant: every file is also returned in the overflow list.
organize_patches_all_overflow(patches) ==
    [organized |-> Distribute(sorted_desc(CountAll(patches)), <<>>, 0, <<>>).organized,
     other |-> sorted_desc(CountAll(patches))]

organize_patches(patches) ==
    Distribute(sorted_desc(CountAll(patches)), <<>>, 0, <<>>)

(***************************************************************************)
(* PRProcessor.chunk_other_files                                           *)
(***************************************************************************)
\* Variant: the chunk test compares against TOKEN_LIMIT.
RECURSIVE ChunkLoop_token_limit(_, _, _, _)
ChunkLoop_token_limit(fs, chunks, current_chunk, current_tokens) ==
    IF fs = <<>>
    THEN IF current_chunk # <<>> THEN Append(chunks, current_chunk) ELSE chunks
    ELSE LET file == fs[1]
         IN  IF current_tokens + file.tokens > TOKEN_LIMIT /\ current_chunk # <<>>
             THEN ChunkLoop_token_limit(Tail(fs), Append(chunks, current_chunk),
                                        <<file>>, file.tokens)
             ELSE ChunkLoop_token_limit(Tail(fs), chunks, Append(current_chunk, file),
                                        current_tokens + file.tokens)

\* Variant: the chunk test forgets to add the file's own tokens.
RECURSIVE ChunkLoop_no_add(_, _, _, _)
ChunkLoop_no_add(fs, chunks, current_chunk, current_tokens) ==
    IF fs = <<>>
    THEN IF current_chunk # <<>> THEN Append(chunks, current_chunk) ELSE chunks
    ELSE LET file == fs[1]
         IN  IF current_tokens > OTHER_FILES_CHUNK_SIZE /\ current_chunk # <<>>
             THEN ChunkLoop_no_add(Tail(fs), Append(chunks, current_chunk),
                                   <<file>>, file.tokens)
             ELSE ChunkLoop_no_add(Tail(fs), chunks, Append(current_chunk, file),
                                   current_tokens + file.tokens)

RECURSIVE ChunkLoop(_, _, _, _)
ChunkLoop(fs, chunks, current_chunk, current_tokens) ==
    IF fs = <<>>
    THEN IF current_chunk # <<>> THEN Append(chunks, current_chunk) ELSE chunks
    ELSE LET file == fs[1]
         IN  IF current_tokens + file.tokens > OTHER_FILES_CHUNK_SIZE /\ current_chunk # <<>>
             THEN ChunkLoop(Tail(fs), Append(chunks, current_chunk), <<file>>, file.tokens)
             ELSE ChunkLoop(Tail(fs), chunks, Append(current_chunk, file),
                            current_tokens + file.tokens)

\* Variant: the trailing "if current_chunk: chunks.append" is missing.
chunk_other_files_no_tail(fs) ==
    LET r == ChunkLoop(fs, <<>>, <<>>, 0)
    IN  IF fs = <<>> THEN <<>> ELSE SubSeq(r, 1, Len(r) - 1)

chunk_other_files(fs) == ChunkLoop(fs, <<>>, <<>>, 0)

(***************************************************************************)
(* PRReviewNodes.prepare_next_batch                                        *)
(***************************************************************************)
\* Variant: the admit test forgets to add the patch's own tokens.
fits_batch_no_sum(current_tokens, tokens) ==
    current_tokens <= BATCH_SIZE

\* The admit test of the drain loop.
fits_batch(current_tokens, tokens) ==
    current_tokens + tokens <= BATCH_SIZE

\* The while loop over one bucket.
RECURSIVE DrainBucket(_, _, _)
DrainBucket(patches, current_tokens, batch) ==
    IF patches # <<>> /\ current_tokens < BATCH_SIZE
       /\ fits_batch(current_tokens, patches[1].tokens)
    THEN DrainBucket(Tail(patches), current_tokens + patches[1].tokens,
                     Append(batch, patches[1]))
    ELSE [patches |-> patches, tokens |-> current_tokens, batch |-> batch]

\* The for loop over organized_patches.items(), in insertion order.
RECURSIVE DrainAll(_, _, _, _)
DrainAll(buckets, k, current_tokens, batch) ==
    IF k > Len(buckets)
    THEN [organized |-> buckets, batch |-> batch]
    ELSE LET r == DrainBucket(buckets[k].patches, current_tokens, batch)
         IN  DrainAll([buckets EXCEPT ![k].patches = r.patches], k + 1, r.tokens, r.batch)

next_batch(buckets) == DrainAll(buckets, 1, 0, <<>>)

RECURSIVE Remaining(_)
Remaining(buckets) ==
    IF buckets = <<>> THEN 0 ELSE Len(buckets[1].patches) + Remaining(Tail(buckets))

RECURSIVE BucketFiles(_)
BucketFiles(buckets) ==
    IF buckets = <<>> THEN <<>> ELSE buckets[1].patches \o BucketFiles(Tail(buckets))

(***************************************************************************)
(* The model-call capability and the prompts                               *)
(***************************************************************************)
\* The empty string "".
NoText == [of |-> "", about |-> <<>>]

\* "File: {filename} ({language}) ```{language} {content}```"
FormatPatch(p) ==
    [filename |-> p.filename, language |-> p.language, content |-> p.content]

FormatFiles(ps) == [i \in 1..Len(ps) |-> FormatPatch(ps[i])]

Prompt(kind, fs, deleted, segments, summaries) ==
    [kind |-> kind, files |-> fs, deleted |-> deleted,
     segments |-> segments, summaries |-> summaries]

\* Variant: the deleted-file list is left out of the prompt.
short_prompt_no_deleted(fs, deleted) ==
    Prompt("short", FormatFiles(fs), <<>>, <<>>, <<>>)

\* review_short_pr: all files of the state and the deleted-file list.
short_prompt(fs, deleted) ==
    Prompt("short", FormatFiles(fs), deleted, <<>>, <<>>)

batch_prompt(batch) ==
    Prompt("batch", FormatFiles(batch), <<>>, <<>>, <<>>)

summary_prompt(chunk) ==
    Prompt("summary", FormatFiles(chunk), <<>>, <<>>, <<>>)

final_prompt(segments, summaries, deleted) ==
    Prompt("final", <<>>, deleted, segments, summaries)

\* response.content of a call that returns.
Reply(prompt) == [of |-> prompt.kind, about |-> Names(prompt.files)]

\* One llm.invoke call as recorded in the history.
Call(prompt, ok) ==
    [prompt |-> prompt, ok |-> ok, response |-> IF ok THEN Reply(prompt) ELSE NoText]

\* Variant: review_batch catches the error and the graph carries on.
on_llm_error_swallowed(node) ==
    IF node = "review_batch" THEN "prepare_next_batch" ELSE "aborted"

\* llm.invoke raised inside a node: nothing catches it before review_pr's caller.
on_llm_error(node) == "aborted"

\* AnalysisTask.result of a task that has not finished (NULL).
NoResult == [kind |-> "null", value |-> NoText]

Pending == [status |-> "pending", value |-> NoText]

Raised == [status |-> "raised", value |-> NoText]

Value(text) == [status |-> "value", value |-> text]

(***************************************************************************)
(* Routing of the graph                                                    *)
(***************************************************************************)
\* Variant: the threshold itself already counts as long.
is_long_inclusive(total_tokens) == total_tokens >= LONG_PR_THRESHOLD

\* state["is_long_pr"] = total_tokens > LONG_PR_THRESHOLD
is_long(total_tokens) == total_tokens > LONG_PR_THRESHOLD

\* Variant: the two branches of the size edge are swapped.
route_after_analyze_inverted(long) ==
    IF long THEN "review_short_pr" ELSE "prepare_next_batch"

route_after_analyze(long) ==
    IF ~long THEN "review_short_pr" ELSE "prepare_next_batch"

\* Variant: the edge tests the bucket dict instead of the batch.
route_after_prepare_dict(batch, organized) ==
    IF organized # <<>> THEN "review_batch" ELSE "summarize_other_files"

route_after_prepare(batch, organized) ==
    IF batch # <<>> THEN "review_batch" ELSE "summarize_other_files"

(***************************************************************************)
(* Initial state: a diff listing is about to be reviewed                   *)
(***************************************************************************)
Init ==
    /\ pc = "start"
    /\ diff \in Diffs
    /\ files = <<>>
    /\ deleted_files = <<>>
    /\ is_long_pr = FALSE
    /\ organized_patches = <<>>
    /\ other_modified_files = <<>>
    /\ current_batch = <<>>
    /\ review_segments = <<>>
    /\ other_files_summary = <<>>
    /\ final_review = NoText
    /\ llm_log = <<>>
    /\ steps = 0
    /\ returned = Pending
    /\ summary_chunks = <<>>
    /\ local_summaries = <<>>
    /\ run_summaries = <<>>
    /\ task_status = "PENDING"
    /\ task_result = NoResult
    /\ rpc = <<>>
    /\ rdiff = <<>>
    /\ store = <<>>

(***************************************************************************)
(* Actions                                                                 *)
(***************************************************************************)
\* generate_pr_review up to the first node: build patches, review_pr's PRState.
generate_pr_review ==
    /\ pc = "start"
    /\ files' = BuildPatches(diff)
    /\ deleted_files' = BuildDeleted(diff)
    /\ pc' = "analyze_pr_size"
    /\ UNCHANGED <<task_status, task_result, rpc, rdiff, store, run_summaries,
                   local_summaries, summary_chunks,
                   diff, is_long_pr, organized_patches, other_modified_files,
                   current_batch, review_segments, other_files_summary,
                   final_review, llm_log, steps, returned>>

analyze_pr_size ==
    /\ pc = "analyze_pr_size"
    /\ LET long == is_long(SumCounted(files))
           r == organize_patches(files)
       IN  /\ is_long_pr' = long
           /\ IF long
              THEN /\ files' = CountAll(files)
                   /\ organized_patches' = r.organized
                   /\ other_modified_files' = r.other
                   /\ current_batch' = <<>>
              ELSE UNCHANGED <<files, organized_patches, other_modified_files,
                               current_batch>>
           /\ pc' = route_after_analyze(long)
    /\ UNCHANGED <<task_status, task_result, rpc, rdiff, store, run_summaries,
                   local_summaries, summary_chunks,
                   diff, deleted_files, review_segments, other_files_summary,
                   final_review, llm_log, steps, returned>>

review_short_pr ==
    /\ pc = "review_short_pr"
    /\ \E ok \in BOOLEAN :
        LET c == Call(short_prompt(files, deleted_files), ok)
        IN  /\ llm_log' = Append(llm_log, c)
            /\ IF ok
               THEN /\ final_review' = c.response
                    /\ pc' = "END"
                    /\ returned' = Value(c.response)
               ELSE /\ final_review' = final_review
                    /\ pc' = on_llm_error("review_short_pr")
                    /\ returned' = Raised
    /\ UNCHANGED <<task_status, task_result, rpc, rdiff, store, run_summaries,
                   local_summaries, summary_chunks,
                   diff, files, deleted_files, is_long_pr, organized_patches,
                   other_modified_files, current_batch, review_segments,
                   other_files_summary, steps>>

prepare_next_batch ==
    /\ pc = "prepare_next_batch"
    /\ steps < MaxSteps
    /\ LET r == next_batch(organized_patches)
       IN  /\ organized_patches' = r.organized
           /\ current_batch' = r.batch
           /\ pc' = route_after_prepare(r.batch, r.organized)
    /\ steps' = steps + 1
    /\ UNCHANGED <<task_status, task_result, rpc, rdiff, store, run_summaries,
                   local_summaries, summary_chunks,
                   diff, files, deleted_files, is_long_pr, other_modified_files,
                   review_segments, other_files_summary, final_review, llm_log,
                   returned>>

\* Variant: the batch review is also stored as the final review.
review_batch_sets_final ==
    /\ pc = "review_batch"
    /\ current_batch # <<>>
    /\ \E ok \in BOOLEAN :
        LET c == Call(batch_prompt(current_batch), ok)
        IN  /\ llm_log' = Append(llm_log, c)
            /\ IF ok
               THEN /\ review_segments' = Append(review_segments, c.response)
                    /\ final_review' = c.response
                    /\ pc' = "prepare_next_batch"
                    /\ returned' = returned
               ELSE /\ review_segments' = review_segments
                    /\ final_review' = final_review
                    /\ pc' = on_llm_error("review_batch")
                    /\ returned' = Raised
    /\ UNCHANGED <<task_status, task_result, rpc, rdiff, store, run_summaries,
                   local_summaries, summary_chunks,
                   diff, files, deleted_files, is_long_pr, organized_patches,
                   other_modified_files, current_batch, other_files_summary,
                   steps>>

\* Variant: the batch review is inserted at the front of review_segments.
review_batch_prepends ==
    /\ pc = "review_batch"
    /\ current_batch # <<>>
    /\ \E ok \in BOOLEAN :
        LET c == Call(batch_prompt(current_batch), ok)
        IN  /\ llm_log' = Append(llm_log, c)
            /\ IF ok
               THEN /\ review_segments' = <<c.response>> \o review_segments
                    /\ pc' = "prepare_next_batch"
                    /\ returned' = returned
               ELSE /\ review_segments' = review_segments
                    /\ pc' = on_llm_error("review_batch")
                    /\ returned' = Raised
    /\ UNCHANGED <<task_status, task_result, rpc, rdiff, store, run_summaries,
                   local_summaries, summary_chunks,
                   diff, files, deleted_files, is_long_pr, organized_patches,
                   other_modified_files, current_batch, other_files_summary,
                   final_review, steps>>

review_batch ==
    /\ pc = "review_batch"
    /\ IF current_batch = <<>>
       THEN /\ pc' = "prepare_next_batch"
            /\ UNCHANGED <<review_segments, llm_log, returned>>
       ELSE \E ok \in BOOLEAN :
            LET c == Call(batch_prompt(current_batch), ok)
            IN  /\ llm_log' = Append(llm_log, c)
                /\ IF ok
                   THEN /\ review_segments' = Append(review_segments, c.response)
                        /\ pc' = "prepare_next_batch"
                        /\ returned' = returned
                   ELSE /\ review_segments' = review_segments
                        /\ pc' = on_llm_error("review_batch")
                        /\ returned' = Raised
    /\ UNCHANGED <<task_status, task_result, rpc, rdiff, store, run_summaries,
                   local_summaries, summary_chunks,
                   diff, files, deleted_files, is_long_pr, organized_patches,
                   other_modified_files, current_batch, other_files_summary,
                   final_review, steps>>

summarize_other_files ==
    /\ pc = "summarize_other_files"
    /\ IF other_modified_files = <<>>
       THEN /\ pc' = "create_final_review"
            /\ UNCHANGED <<other_files_summary, llm_log, returned, summary_chunks,
                           local_summaries>>
       ELSE LET cs == chunk_other_files(other_modified_files)
                k == Len(local_summaries) + 1
            IN  /\ summary_chunks' = cs
                /\ \E ok \in BOOLEAN :
                    LET c == Call(summary_prompt(cs[k]), ok)
                    IN  /\ llm_log' = Append(llm_log, c)
                        /\ IF ~ok
                           THEN /\ pc' = on_llm_error("summarize_other_files")
                                /\ returned' = Raised
                                /\ UNCHANGED <<other_files_summary, local_summaries>>
                           ELSE /\ local_summaries' = Append(local_summaries, c.response)
                                /\ returned' = returned
                                /\ IF k = Len(cs)
                                   THEN /\ other_files_summary' =
                                               Append(local_summaries, c.response)
                                        /\ pc' = "create_final_review"
                                   ELSE /\ pc' = "summarize_other_files"
                                        /\ UNCHANGED other_files_summary
    /\ UNCHANGED <<task_status, task_result, rpc, rdiff, store, run_summaries,
                   diff, files, deleted_files, is_long_pr, organized_patches,
                   other_modified_files, current_batch, review_segments,
                   final_review, steps>>

create_final_review ==
    /\ pc = "create_final_review"
    /\ \E ok \in BOOLEAN :
        LET c == Call(final_prompt(review_segments, other_files_summary, deleted_files), ok)
        IN  /\ llm_log' = Append(llm_log, c)
            /\ IF ok
               THEN /\ final_review' = c.response
                    /\ pc' = "END"
                    /\ returned' = Value(c.response)
               ELSE /\ final_review' = final_review
                    /\ pc' = on_llm_error("create_final_review")
                    /\ returned' = Raised
    /\ UNCHANGED <<task_status, task_result, rpc, rdiff, store, run_summaries,
                   local_summaries, summary_chunks,
                   diff, files, deleted_files, is_long_pr, organized_patches,
                   other_modified_files, current_batch, review_segments,
                   other_files_summary, steps>>

Next ==
    \/ generate_pr_review
    \/ analyze_pr_size
    \/ review_short_pr
    \/ prepare_next_batch
    \/ review_batch
    \/ summarize_other_files
    \/ create_final_review

Spec == Init /\ [][Next]_vars

(***************************************************************************)
(* organize_patches as a function: applied to any list of patches          *)
(***************************************************************************)
InitOrganize ==
    /\ pc = "organize_patches"
    /\ diff \in Diffs
    /\ files = BuildPatches(diff)
    /\ deleted_files = <<>>
    /\ is_long_pr = FALSE
    /\ organized_patches = <<>>
    /\ other_modified_files = <<>>
    /\ current_batch = <<>>
    /\ review_segments = <<>>
    /\ other_files_summary = <<>>
    /\ final_review = NoText
    /\ llm_log = <<>>
    /\ steps = 0
    /\ returned = Pending
    /\ summary_chunks = <<>>
    /\ local_summaries = <<>>
    /\ run_summaries = <<>>
    /\ task_status = "PENDING"
    /\ task_result = NoResult
    /\ rpc = <<>>
    /\ rdiff = <<>>
    /\ store = <<>>

organize_call ==
    /\ pc = "organize_patches"
    /\ LET r == organize_patches(files)
       IN  /\ files' = CountAll(files)
           /\ organized_patches' = r.organized
           /\ other_modified_files' = r.other
    /\ pc' = "organized"
    /\ UNCHANGED <<task_status, task_result, rpc, rdiff, store, run_summaries,
                   local_summaries, summary_chunks,
                   diff, deleted_files, is_long_pr, current_batch, review_segments,
                   other_files_summary, final_review, llm_log, steps, returned,
          summary_chunks, task_status, task_result, rpc, rdiff, store, run_summaries, local_summaries>>

NextOrganize == organize_call

SpecOrganize == InitOrganize /\ [][NextOrganize]_vars

(***************************************************************************)
(* chunk_other_files as a function: applied to any list of counted patches *)
(***************************************************************************)
ChunkTexts == {"", "t800", "t1500", "t2000"}

RECURSIVE ChunkInputsOfLen(_)
ChunkInputsOfLen(n) ==
    IF n = 0 THEN { <<>> }
    ELSE { Append(fs, [FilePatch(<<Stems[n], ".", "p", "y">>, t, "python")
                          EXCEPT !.tokens = count_tokens(t)]) :
             fs \in ChunkInputsOfLen(n - 1), t \in ChunkTexts }

ChunkInputs == UNION { ChunkInputsOfLen(n) : n \in 0..MaxFiles }

InitChunk ==
    /\ pc = "chunk_other_files"
    /\ other_modified_files \in ChunkInputs
    /\ diff = <<>>
    /\ files = <<>>
    /\ deleted_files = <<>>
    /\ is_long_pr = TRUE
    /\ organized_patches = <<>>
    /\ current_batch = <<>>
    /\ review_segments = <<>>
    /\ other_files_summary = <<>>
    /\ final_review = NoText
    /\ llm_log = <<>>
    /\ steps = 0
    /\ returned = Pending
    /\ summary_chunks = <<>>
    /\ local_summaries = <<>>
    /\ run_summaries = <<>>
    /\ task_status = "PENDING"
    /\ task_result = NoResult
    /\ rpc = <<>>
    /\ rdiff = <<>>
    /\ store = <<>>

chunk_call ==
    /\ pc = "chunk_other_files"
    /\ summary_chunks' = chunk_other_files(other_modified_files)
    /\ pc' = "chunked"
    /\ UNCHANGED <<task_status, task_result, rpc, rdiff, store, run_summaries, local_summaries,
                   diff, files, deleted_files, is_long_pr, organized_patches,
                   other_modified_files, current_batch, review_segments,
                   other_files_summary, final_review, llm_log, steps, returned>>

NextChunk == chunk_call

SpecChunk == InitChunk /\ [][NextChunk]_vars

(***************************************************************************)
(* The Celery task analyze_pull_request around the workflow                *)
(***************************************************************************)
\* str(e) of the exception caught by the task.
ErrorDetail(what) == [kind |-> "error", value |-> [of |-> "exception", about |-> <<what>>]]

\* json.loads(review): the parsed form of a review text.
ParsedReview(text) == [kind |-> "json", value |-> text]

\* Variant: json.loads is outside the try block, its error escapes the task.
status_after_json_uncaught(outcome, status) ==
    CASE outcome = "ok"         -> "SUCCESS"
      [] outcome = "json_error" -> status
      [] OTHER                  -> "FAILED"

\* db_task.status written by the try block or by the except block.
status_after(outcome, status) ==
    IF outcome = "ok" THEN "SUCCESS" ELSE "FAILED"

\* db_task.result written by the try block or by the except block.
result_after(outcome, review, result) ==
    CASE outcome = "ok"          -> ParsedReview(review)
      [] outcome = "fetch_error" -> ErrorDetail("get_pr_details")
      [] outcome = "llm_error"   -> ErrorDetail("generate_pr_review")
      [] outcome = "json_error"  -> ErrorDetail("json.loads")

\* The task row exists (created and committed by analyze_pr before .delay).
InitTask ==
    /\ pc = "task_start"
    /\ diff \in Diffs
    /\ files = <<>>
    /\ deleted_files = <<>>
    /\ is_long_pr = FALSE
    /\ organized_patches = <<>>
    /\ other_modified_files = <<>>
    /\ current_batch = <<>>
    /\ review_segments = <<>>
    /\ other_files_summary = <<>>
    /\ final_review = NoText
    /\ llm_log = <<>>
    /\ steps = 0
    /\ returned = Pending
    /\ summary_chunks = <<>>
    /\ local_summaries = <<>>
    /\ run_summaries = <<>>
    /\ task_status = "PENDING"
    /\ task_result = NoResult
    /\ rpc = <<>>
    /\ rdiff = <<>>
    /\ store = <<>>

WorkflowVars == <<diff, files, deleted_files, is_long_pr, organized_patches,
                  other_modified_files, current_batch, review_segments,
                  other_files_summary, final_review, llm_log, steps, returned,
                  summary_chunks, rpc, rdiff, store, run_summaries, local_summaries>>

\* db_task.status = "IN_PROGRESS"; db.commit()
task_begin ==
    /\ pc = "task_start"
    /\ task_status' = "IN_PROGRESS"
    /\ pc' = "get_pr_details"
    /\ UNCHANGED <<task_result, WorkflowVars>>

\* get_pr_details returns the listing or raises (status code other than 200).
task_get_pr_details ==
    /\ pc = "get_pr_details"
    /\ \E ok \in BOOLEAN :
        IF ok
        THEN /\ pc' = "start"
             /\ UNCHANGED <<task_status, task_result>>
        ELSE /\ pc' = "task_returned"
             /\ task_status' = status_after("fetch_error", task_status)
             /\ task_result' = result_after("fetch_error", NoText, task_result)
    /\ UNCHANGED WorkflowVars

\* generate_pr_review returned or raised; json.loads, then the database update.
task_finish ==
    /\ pc \in {"END", "aborted"}
    /\ \E parses \in BOOLEAN :
        LET outcome == IF pc = "aborted" THEN "llm_error"
                       ELSE IF parses THEN "ok" ELSE "json_error"
        IN  /\ task_status' = status_after(outcome, task_status)
            /\ task_result' = IF task_status' = task_status THEN task_result
                               ELSE result_after(outcome, returned.value, task_result)
    /\ pc' = "task_returned"
    /\ UNCHANGED WorkflowVars

NextTask ==
    \/ task_begin
    \/ task_get_pr_details
    \/ task_finish
    \/ generate_pr_review
    \/ analyze_pr_size
    \/ review_short_pr
    \/ prepare_next_batch
    \/ review_batch
    \/ summarize_other_files
    \/ create_final_review

SpecTask == InitTask /\ [][NextTask]_vars

(***************************************************************************)
(* Two concurrent review_pr runs, each node as a function of a PRState     *)
(***************************************************************************)
\* review_pr: the PRState built for one run.
PRStateInit(fs, deleted) ==
    [files |-> fs, deleted_files |-> deleted, is_long_pr |-> FALSE,
     organized_patches |-> <<>>, other_modified_files |-> <<>>,
     current_batch |-> <<>>, review_segments |-> <<>>,
     other_files_summary |-> <<>>, final_review |-> NoText, llm_log |-> <<>>]

node_analyze_pr_size(st) ==
    LET long == is_long(SumCounted(st.files))
        r == organize_patches(st.files)
    IN  [st |-> IF long
                THEN [st EXCEPT !.is_long_pr = TRUE,
                                !.files = CountAll(st.files),
                                !.organized_patches = r.organized,
                                !.other_modified_files = r.other,
                                !.current_batch = <<>>]
                ELSE [st EXCEPT !.is_long_pr = FALSE],
         next |-> route_after_analyze(long)]

node_review_short_pr(st, ok) ==
    LET c == Call(short_prompt(st.files, st.deleted_files), ok)
    IN  IF ok
        THEN [st |-> [st EXCEPT !.llm_log = Append(@, c), !.final_review = c.response],
              next |-> "END"]
        ELSE [st |-> [st EXCEPT !.llm_log = Append(@, c)],
              next |-> on_llm_error("review_short_pr")]

node_prepare_next_batch(st) ==
    LET r == next_batch(st.organized_patches)
    IN  [st |-> [st EXCEPT !.organized_patches = r.organized, !.current_batch = r.batch],
         next |-> route_after_prepare(r.batch, r.organized)]

node_review_batch(st, ok) ==
    IF st.current_batch = <<>>
    THEN [st |-> st, next |-> "prepare_next_batch"]
    ELSE LET c == Call(batch_prompt(st.current_batch), ok)
         IN  IF ok
             THEN [st |-> [st EXCEPT !.llm_log = Append(@, c),
                                     !.review_segments = Append(@, c.response)],
                   next |-> "prepare_next_batch"]
             ELSE [st |-> [st EXCEPT !.llm_log = Append(@, c)],
                   next |-> on_llm_error("review_batch")]

\* One pass of the loop over the chunks: the call for chunk Len(local) + 1.
\* local is the node's list of replies so far; it is stored in the state
\* only after the last chunk.
node_summarize_other_files(st, local, ok) ==
    IF st.other_modified_files = <<>>
    THEN [st |-> st, local |-> local, next |-> "create_final_review"]
    ELSE LET cs == chunk_other_files(st.other_modified_files)
             k == Len(local) + 1
             c == Call(summary_prompt(cs[k]), ok)
             logged == [st EXCEPT !.llm_log = Append(@, c)]
         IN  IF ~ok
             THEN [st |-> logged, local |-> local,
                   next |-> on_llm_error("summarize_other_files")]
             ELSE IF k = Len(cs)
                  THEN [st |-> [logged EXCEPT !.other_files_summary =
                                                  Append(local, c.response)],
                        local |-> Append(local, c.response),
                        next |-> "create_final_review"]
                  ELSE [st |-> logged, local |-> Append(local, c.response),
                        next |-> "summarize_other_files"]

node_create_final_review(st, ok) ==
    LET c == Call(final_prompt(st.review_segments, st.other_files_summary,
                               st.deleted_files), ok)
    IN  IF ok
        THEN [st |-> [st EXCEPT !.llm_log = Append(@, c), !.final_review = c.response],
              next |-> "END"]
        ELSE [st |-> [st EXCEPT !.llm_log = Append(@, c)],
              next |-> on_llm_error("create_final_review")]

\* app.invoke on its own, every model call returning: the state at END.
RECURSIVE Drive(_, _, _)
Drive(st, node, local) ==
    CASE node = "END" -> st
      [] node = "analyze_pr_size" ->
            LET r == node_analyze_pr_size(st) IN Drive(r.st, r.next, local)
      [] node = "review_short_pr" ->
            LET r == node_review_short_pr(st, TRUE) IN Drive(r.st, r.next, local)
      [] node = "prepare_next_batch" ->
            LET r == node_prepare_next_batch(st) IN Drive(r.st, r.next, local)
      [] node = "review_batch" ->
            LET r == node_review_batch(st, TRUE) IN Drive(r.st, r.next, local)
      [] node = "summarize_other_files" ->
            LET r == node_summarize_other_files(st, local, TRUE)
            IN  Drive(r.st, r.next, r.local)
      [] node = "create_final_review" ->
            LET r == node_create_final_review(st, TRUE) IN Drive(r.st, r.next, local)

SoloRun(d) ==
    Drive(PRStateInit(BuildPatches(d), BuildDeleted(d)), "analyze_pr_size", <<>>)

Runs == {1, 2}

\* Variant: the PRState is one module-level object used by every run.
state_of_shared(r) == 1

\* The PRState object a run works on: review_pr builds a fresh one per call.
state_of(r) == r

RunState(r) == store[state_of(r)]

\* The change sets of the concurrent runs: modified python files.
RunDiffs ==
    { d \in Diffs : \A i \in 1..Len(d) :
        /\ d[i].status = "modified"
        /\ d[i].patch \in {"t1500", "t5000"}
        /\ d[i].filename = <<Stems[i], ".", "p", "y">> }

InitTwoRuns ==
    /\ rpc = [r \in Runs |-> "start"]
    /\ rdiff \in [Runs -> RunDiffs]
    /\ store = [r \in Runs |-> PRStateInit(<<>>, <<>>)]
    /\ pc = "two_runs"
    /\ diff = <<>>
    /\ files = <<>>
    /\ deleted_files = <<>>
    /\ is_long_pr = FALSE
    /\ organized_patches = <<>>
    /\ other_modified_files = <<>>
    /\ current_batch = <<>>
    /\ review_segments = <<>>
    /\ other_files_summary = <<>>
    /\ final_review = NoText
    /\ llm_log = <<>>
    /\ steps = 0
    /\ returned = Pending
    /\ summary_chunks = <<>>
    /\ local_summaries = <<>>
    /\ run_summaries = [r \in Runs |-> <<>>]
    /\ task_status = "PENDING"
    /\ task_result = NoResult

SingleRunVars == <<pc, diff, files, deleted_files, is_long_pr, organized_patches,
                   other_modified_files, current_batch, review_segments,
                   other_files_summary, final_review, llm_log, steps, returned,
                   summary_chunks, local_summaries, task_status, task_result>>

\* The run's node has produced res: the run's PRState and position are updated.
RunMoves(r, res) ==
    /\ store' = [store EXCEPT ![state_of(r)] = res.st]
    /\ rpc' = [rpc EXCEPT ![r] = res.next]
    /\ UNCHANGED <<rdiff, SingleRunVars>>

run_generate_pr_review(r) ==
    /\ rpc[r] = "start"
    /\ RunMoves(r, [st |-> PRStateInit(BuildPatches(rdiff[r]), BuildDeleted(rdiff[r])),
                    next |-> "analyze_pr_size"])
    /\ UNCHANGED run_summaries

run_analyze_pr_size(r) ==
    /\ rpc[r] = "analyze_pr_size"
    /\ RunMoves(r, node_analyze_pr_size(RunState(r)))
    /\ UNCHANGED run_summaries

run_review_short_pr(r) ==
    /\ rpc[r] = "review_short_pr"
    /\ \E ok \in BOOLEAN : RunMoves(r, node_review_short_pr(RunState(r), ok))
    /\ UNCHANGED run_summaries

run_prepare_next_batch(r) ==
    /\ rpc[r] = "prepare_next_batch"
    /\ RunMoves(r, node_prepare_next_batch(RunState(r)))
    /\ UNCHANGED run_summaries

run_review_batch(r) ==
    /\ rpc[r] = "review_batch"
    /\ \E ok \in BOOLEAN : RunMoves(r, node_review_batch(RunState(r), ok))
    /\ UNCHANGED run_summaries

\* One llm.invoke of the loop per step: the other run may act between two calls.
run_summarize_other_files(r) ==
    /\ rpc[r] = "summarize_other_files"
    /\ \E ok \in BOOLEAN :
           LET res == node_summarize_other_files(RunState(r), run_summaries[r], ok)
           IN  /\ RunMoves(r, res)
               /\ run_summaries' = [run_summaries EXCEPT ![r] = res.local]

run_create_final_review(r) ==
    /\ rpc[r] = "create_final_review"
    /\ \E ok \in BOOLEAN : RunMoves(r, node_create_final_review(RunState(r), ok))
    /\ UNCHANGED run_summaries

NextTwoRuns ==
    \/ \E r \in Runs : run_generate_pr_review(r)
    \/ \E r \in Runs : run_analyze_pr_size(r)
    \/ \E r \in Runs : run_review_short_pr(r)
    \/ \E r \in Runs : run_prepare_next_batch(r)
    \/ \E r \in Runs : run_review_batch(r)
    \/ \E r \in Runs : run_summarize_other_files(r)
    \/ \E r \in Runs : run_create_final_review(r)

SpecTwoRuns == InitTwoRuns /\ [][NextTwoRuns]_vars

(***************************************************************************)
(* generate_pr_review's language inference over bounded filenames          *)
(***************************************************************************)
NameChars == {"a", ".", "p", "y", "j", "s"}

RECURSIVE NamesOfLen(_)
NamesOfLen(n) ==
    IF n = 0 THEN { <<>> }
    ELSE { Append(f, c) : f \in NamesOfLen(n - 1), c \in NameChars }

\* The non-empty filenames a diff entry may carry.
Filenames == UNION { NamesOfLen(n) : n \in 1..MaxNameLen }

InitLanguage ==
    /\ pc = "infer_language"
    /\ diff \in { << [filename |-> f, patch |-> Absent, status |-> "modified"] >> :
                     f \in Filenames }
    /\ files = <<>>
    /\ deleted_files = <<>>
    /\ is_long_pr = FALSE
    /\ organized_patches = <<>>
    /\ other_modified_files = <<>>
    /\ current_batch = <<>>
    /\ review_segments = <<>>
    /\ other_files_summary = <<>>
    /\ final_review = NoText
    /\ llm_log = <<>>
    /\ steps = 0
    /\ returned = Pending
    /\ summary_chunks = <<>>
    /\ local_summaries = <<>>
    /\ run_summaries = <<>>
    /\ task_status = "PENDING"
    /\ task_result = NoResult
    /\ rpc = <<>>
    /\ rdiff = <<>>
    /\ store = <<>>

\* The loop of generate_pr_review: one FilePatch per entry, with its language.
language_call ==
    /\ pc = "infer_language"
    /\ files' = BuildPatches(diff)
    /\ deleted_files' = BuildDeleted(diff)
    /\ pc' = "patches_built"
    /\ UNCHANGED <<task_status, task_result, rpc, rdiff, store, run_summaries,
                   local_summaries, summary_chunks, diff,
                   is_long_pr, organized_patches, other_modified_files, current_batch,
                   review_segments, other_files_summary, final_review, llm_log,
                   steps, returned>>

NextLanguage == language_call

SpecLanguage == InitLanguage /\ [][NextLanguage]_vars

(***************************************************************************)
(* Properties                                                              *)
(***************************************************************************)
Count(seq, x) == Cardinality({ i \in 1..Len(seq) : seq[i] = x })

\* How many returning batch-review or summary calls carried this file.
Presented(p) ==
    Cardinality({ i \in 1..Len(llm_log) :
        /\ llm_log[i].ok
        /\ llm_log[i].prompt.kind \in {"batch", "summary"}
        /\ \E j \in 1..Len(llm_log[i].prompt.files) :
               llm_log[i].prompt.files[j] = FormatPatch(p) })

LongNodes == {"prepare_next_batch", "review_batch", "summarize_other_files",
              "create_final_review"}

\* C1: in a long run that reached END, every input file was carried by exactly
\* one reviewed batch or exactly one summarized chunk.
C1_EveryFilePresentedOnce ==
    (pc = "END" /\ is_long_pr) =>
        \A i \in 1..Len(files) : Presented(files[i]) = 1

\* C2: a scheduling step taken with a non-empty bucket returns a non-empty batch
\* and leaves fewer patches in the buckets; it returns an empty batch only when
\* every bucket is empty.
C2_StepMakesProgress ==
    [][ (pc = "prepare_next_batch" /\ pc' # pc) =>
          /\ Remaining(organized_patches) > 0 =>
                /\ current_batch' # <<>>
                /\ Remaining(organized_patches') < Remaining(organized_patches)
          /\ current_batch' = <<>> => Remaining(organized_patches) = 0 ]_vars

\* C3: every batch has a token sum within BATCH_SIZE, unless it is a single
\* file that is itself larger than BATCH_SIZE.
C3_BatchWithinBudget ==
    \/ SumTokens(current_batch) <= BATCH_SIZE
    \/ Len(current_batch) = 1 /\ current_batch[1].tokens > BATCH_SIZE

C3_Witness ==
    /\ pc = "review_batch"
    /\ Len(current_batch) >= 2
    /\ SumTokens(current_batch) = BATCH_SIZE

\* C4 as stated: the drain loop takes at most N scheduling steps for N files.
C4_AtMostNSteps == steps <= Len(files)

\* C4 amended: the drain loop takes at most N + 1 scheduling steps for N files,
\* at most N of them returning a non-empty batch, and a further step is only
\* ever due while fewer than N + 1 have been taken.
C4_AtMostNPlusOneSteps ==
    /\ pc # "start" => steps <= Len(files) + 1
    /\ Len(review_segments) <= Len(files)
    /\ pc = "prepare_next_batch" => steps <= Len(files)

C4_Witness ==
    /\ pc = "summarize_other_files"
    /\ Len(files) >= 2
    /\ steps = Len(files) + 1

\* C5: organize_patches partitions its input: every input file is in exactly
\* one place among the buckets and the overflow list, nothing else is there,
\* and an empty input gives no bucket and no overflow.
C5_OrganizePartitions ==
    pc = "organized" =>
        LET placed == BucketFiles(organized_patches) \o other_modified_files
        IN  /\ Len(placed) = Len(diff)
            /\ \A i \in 1..Len(diff) :
                   Cardinality({ j \in 1..Len(placed) :
                       /\ placed[j].filename = diff[i].filename
                       /\ placed[j].content = get_patch(diff[i]) }) = 1
            /\ diff = <<>> => organized_patches = <<>> /\ other_modified_files = <<>>

C5_Witness ==
    /\ pc = "organized"
    /\ other_modified_files # <<>>
    /\ \E k \in 1..Len(organized_patches) : Len(organized_patches[k].patches) >= 2

\* C6: after organize_patches the bucketed patches sum to at most TOKEN_LIMIT,
\* and a patch larger than TOKEN_LIMIT is in the overflow list.
C6_BucketsWithinLimit ==
    pc = "organized" =>
        /\ SumTokens(BucketFiles(organized_patches)) <= TOKEN_LIMIT
        /\ \A i \in 1..Len(files) :
               count_tokens(files[i].content) > TOKEN_LIMIT =>
                   /\ Count(other_modified_files, files[i]) = 1
                   /\ Count(BucketFiles(organized_patches), files[i]) = 0

C6_Witness ==
    /\ pc = "organized"
    /\ \E i \in 1..Len(files) : files[i].tokens > TOKEN_LIMIT
    /\ SumTokens(BucketFiles(organized_patches)) = TOKEN_LIMIT

\* C7: the run is long exactly when the total token count of the input files
\* exceeds LONG_PR_THRESHOLD, and the graph routes accordingly.
C7_LongIffOverThreshold ==
    pc \notin {"start", "analyze_pr_size"} =>
        /\ is_long_pr <=> SumCounted(BuildPatches(diff)) > LONG_PR_THRESHOLD
        /\ pc = "review_short_pr" => SumCounted(BuildPatches(diff)) <= LONG_PR_THRESHOLD
        /\ pc \in LongNodes => SumCounted(BuildPatches(diff)) > LONG_PR_THRESHOLD

C7_Witness ==
    /\ pc = "review_short_pr"
    /\ SumCounted(files) = LONG_PR_THRESHOLD

\* C8: the filename of a diff entry with status "deleted" is not among the
\* FilePatch records handed to the workflow.
C8_DeletedNotReviewable ==
    pc # "start" =>
        \A i \in 1..Len(diff) :
            diff[i].status = "deleted" =>
                \A j \in 1..Len(files) : files[j].filename # diff[i].filename

\* C9: a failed model call is the last call of the run: the run is aborted,
\* nothing is returned and no final review exists.
C9_FailureAborts ==
    \A i \in 1..Len(llm_log) :
        ~llm_log[i].ok =>
            /\ i = Len(llm_log)
            /\ pc = "aborted"
            /\ returned = Raised
            /\ final_review = NoText

C9_Witness ==
    /\ pc = "aborted"
    /\ Len(llm_log) = 2
    /\ llm_log[2].prompt.kind = "batch"
    /\ Len(review_segments) = 1
    /\ Remaining(organized_patches) > 0

\* C10: a short run that reached END made exactly one model call, whose prompt
\* holds every input file's content and the deleted-file list, and whose reply
\* is the final review handed back.
C10_ShortRunOneCall ==
    (pc = "END" /\ ~is_long_pr) =>
        /\ Len(llm_log) = 1
        /\ llm_log[1].ok
        /\ llm_log[1].prompt.kind = "short"
        /\ Len(llm_log[1].prompt.files) = Len(diff)
        /\ \A i \in 1..Len(diff) :
               /\ llm_log[1].prompt.files[i].filename = diff[i].filename
               /\ llm_log[1].prompt.files[i].content = get_patch(diff[i])
        /\ \A i \in 1..Len(diff) :
               diff[i].status = "deleted" =>
                   Count(llm_log[1].prompt.deleted, diff[i].filename) = 1
        /\ final_review = llm_log[1].response
        /\ returned = Value(llm_log[1].response)

C10_Witness ==
    /\ pc = "END"
    /\ ~is_long_pr
    /\ Len(files) >= 2
    /\ deleted_files # <<>>
    /\ \E i \in 1..Len(files) : files[i].content # ""

TerminalNodes == {"review_short_pr", "create_final_review"}

\* C11: final_review is empty in every state before the terminal step, is
\* written only by the terminal step (review_short_pr or create_final_review),
\* from empty, and is never changed after that.
C11_FinalReviewWrittenOnce ==
    /\ [](pc # "END" => final_review = NoText)
    /\ [][ final_review' # final_review =>
             /\ pc \in TerminalNodes
             /\ final_review = NoText
             /\ pc' = "END" ]_vars
    /\ [][ pc = "END" => final_review' = final_review ]_vars

C11_Witness ==
    /\ pc = "END"
    /\ is_long_pr
    /\ Len(review_segments) >= 2
    /\ final_review # NoText

RECURSIVE Flatten(_)
Flatten(cs) == IF cs = <<>> THEN <<>> ELSE cs[1] \o Flatten(Tail(cs))

TokensOf(ps) == [i \in 1..Len(ps) |-> ps[i].tokens]

ChunkSizes(cs) == [k \in 1..Len(cs) |-> TokensOf(cs[k])]

\* C12: every chunk sums to at most OTHER_FILES_CHUNK_SIZE, unless it is a
\* single file that is itself larger; such a file is alone in its own chunk.
C12_ChunkWithinBudget ==
    pc = "chunked" =>
        /\ \A k \in 1..Len(summary_chunks) :
               \/ SumTokens(summary_chunks[k]) <= OTHER_FILES_CHUNK_SIZE
               \/ /\ Len(summary_chunks[k]) = 1
                  /\ summary_chunks[k][1].tokens > OTHER_FILES_CHUNK_SIZE
        /\ \A i \in 1..Len(other_modified_files) :
               other_modified_files[i].tokens > OTHER_FILES_CHUNK_SIZE =>
                   \E k \in 1..Len(summary_chunks) :
                       summary_chunks[k] = <<other_modified_files[i]>>

C12_Witness ==
    /\ pc = "chunked"
    /\ \E k \in 1..Len(summary_chunks) :
           Len(summary_chunks[k]) = 1 /\ summary_chunks[k][1].tokens > OTHER_FILES_CHUNK_SIZE
    /\ \E k \in 1..Len(summary_chunks) :
           Len(summary_chunks[k]) = 2 /\ SumTokens(summary_chunks[k]) > 0

\* C13: the chunks, concatenated in order, are exactly the input sequence; no
\* chunk is empty; an empty input gives no chunk.
C13_ChunksPreserveInput ==
    pc = "chunked" =>
        /\ Flatten(summary_chunks) = other_modified_files
        /\ \A k \in 1..Len(summary_chunks) : summary_chunks[k] # <<>>
        /\ other_modified_files = <<>> => summary_chunks = <<>>

C13_Witness ==
    /\ pc = "chunked"
    /\ Len(other_modified_files) = 3
    /\ Len(summary_chunks) = 2

\* C14 as stated: three files of 800 tokens give the two chunks [[800],[800,800]].
C14_TwoChunks ==
    (pc = "chunked" /\ TokensOf(other_modified_files) = <<800, 800, 800>>) =>
        ChunkSizes(summary_chunks) = << <<800>>, <<800, 800>> >>

\* C14 amended: three files of 800 tokens give three chunks of one file each.
C14_ThreeChunks ==
    (pc = "chunked" /\ TokensOf(other_modified_files) = <<800, 800, 800>>) =>
        ChunkSizes(summary_chunks) = << <<800>>, <<800>>, <<800>> >>

C14_Witness ==
    /\ pc = "chunked"
    /\ TokensOf(other_modified_files) = <<800, 800, 800>>
    /\ Len(summary_chunks) = 3

BatchCalls == SelectSeq(llm_log, LAMBDA c : c.prompt.kind = "batch" /\ c.ok)

SummaryCalls == SelectSeq(llm_log, LAMBDA c : c.prompt.kind = "summary" /\ c.ok)

FinalCalls == SelectSeq(llm_log, LAMBDA c : c.prompt.kind = "final")

IsPrefix(s, t) == Len(s) <= Len(t) /\ SubSeq(t, 1, Len(s)) = s

\* C15: review_segments only grows at its end and its i-th entry is the reply
\* to the i-th batch of the scheduler; other_files_summary holds the reply to
\* each overflow chunk in chunk order; the synthesis prompt carries both
\* sequences in that order.
C15_SegmentsInSchedulingOrder ==
    /\ [][ IsPrefix(review_segments, review_segments') ]_vars
    /\ [][ (pc = "review_batch" /\ pc' = "prepare_next_batch") =>
             /\ Len(review_segments') = steps
             /\ review_segments'[steps] = Reply(batch_prompt(current_batch)) ]_vars
    /\ [] /\ Len(review_segments) = Len(BatchCalls)
          /\ \A i \in 1..Len(review_segments) :
                 review_segments[i] = BatchCalls[i].response
          /\ (pc \in {"create_final_review", "END"} /\ is_long_pr) =>
                 LET cs == chunk_other_files(other_modified_files)
                 IN  /\ Len(other_files_summary) = Len(cs)
                     /\ Len(SummaryCalls) = Len(cs)
                     /\ \A k \in 1..Len(cs) :
                            /\ SummaryCalls[k].prompt.files = FormatFiles(cs[k])
                            /\ other_files_summary[k] = SummaryCalls[k].response
          /\ \A i \in 1..Len(FinalCalls) :
                 /\ FinalCalls[i].prompt.segments = review_segments
                 /\ FinalCalls[i].prompt.summaries = other_files_summary

C15_Witness ==
    /\ pc = "END"
    /\ Len(review_segments) >= 2
    /\ review_segments[1] # review_segments[2]
    /\ Len(other_files_summary) >= 1

TaskRunning == {"get_pr_details", "start", "analyze_pr_size", "review_short_pr",
                "prepare_next_batch", "review_batch", "summarize_other_files",
                "create_final_review", "END", "aborted"}

\* C17: the task is IN_PROGRESS while the run is under way; once the task
\* function has returned it is SUCCESS with the parsed final review when the
\* fetch, the review and the parsing all succeeded, and FAILED with a failure
\* detail otherwise; SUCCESS and FAILED are final.
C17_TaskOutcome ==
    /\ [](pc \in TaskRunning => task_status = "IN_PROGRESS")
    /\ [](pc = "task_returned" =>
            /\ task_status \in {"SUCCESS", "FAILED"}
            /\ returned.status = "pending" =>
                   task_status = "FAILED" /\ task_result = ErrorDetail("get_pr_details")
            /\ returned.status = "raised" =>
                   task_status = "FAILED" /\ task_result = ErrorDetail("generate_pr_review")
            /\ returned.status = "value" =>
                   \/ task_status = "SUCCESS" /\ task_result = ParsedReview(final_review)
                   \/ task_status = "FAILED" /\ task_result = ErrorDetail("json.loads"))
    /\ [][ (task_status \in {"SUCCESS", "FAILED"}) => task_status' = task_status ]_vars

C17_Witness ==
    /\ pc = "task_returned"
    /\ task_status = "SUCCESS"
    /\ is_long_pr
    /\ task_result = ParsedReview(final_review)

\* C18: while two runs interleave, a step that is not run r's (r's position
\* and its list of summaries so far stay the same) leaves run r's state
\* untouched, and a run that reaches END holds exactly the state (calls
\* made, segments, summaries, final review) it reaches when run alone.
C18_RunsDoNotInterfere ==
    /\ [][ \A r \in Runs :
               (rpc'[r] = rpc[r] /\ run_summaries'[r] = run_summaries[r]) =>
                   RunState(r)' = RunState(r) ]_vars
    /\ [](\A r \in Runs : rpc[r] = "END" => RunState(r) = SoloRun(rdiff[r]))

C18_Witness ==
    /\ rpc[1] = "END"
    /\ rpc[2] = "review_batch"
    /\ rdiff[1] # rdiff[2]
    /\ RunState(1).is_long_pr
    /\ Len(RunState(1).review_segments) >= 2
    /\ Len(RunState(2).review_segments) = 1
    /\ Len(RunState(1).other_files_summary) >= 1

\* The transitions of the two step sequences, and the exit of a node whose
\* model call raises.
SequenceEdges ==
    { <<"start", "analyze_pr_size">>,
      <<"analyze_pr_size", "review_short_pr">>,
      <<"review_short_pr", "END">>,
      <<"analyze_pr_size", "prepare_next_batch">>,
      <<"prepare_next_batch", "review_batch">>,
      <<"review_batch", "prepare_next_batch">>,
      <<"prepare_next_batch", "summarize_other_files">>,
      <<"summarize_other_files", "create_final_review">>,
      <<"create_final_review", "END">> }
    \cup { <<n, "aborted">> : n \in {"review_short_pr", "review_batch",
                                     "summarize_other_files", "create_final_review"} }

KindRank(kind) ==
    CASE kind = "batch" -> 1
      [] kind = "summary" -> 2
      [] kind = "final" -> 3
      [] OTHER -> 0

CallsOfKind(kind) == SelectSeq(llm_log, LAMBDA c : c.prompt.kind = kind)

\* C19: a run moves only along the short sequence or along the long sequence
\* and never mixes them; in a long run every batch-review call precedes every
\* overflow-summary call, the summary step makes one call per chunk (none, and
\* an empty summary set, when the overflow is empty), the synthesis call is
\* made once and last, and review_batch is never entered with an empty batch.
C19_TwoStepSequences ==
    /\ [][ (<<pc, pc'>> \in SequenceEdges) ]_pc
    /\ [] /\ (pc \in LongNodes) => is_long_pr
          /\ (pc = "review_short_pr") => ~is_long_pr /\ llm_log = <<>>
          /\ is_long_pr => CallsOfKind("short") = <<>>
          /\ (~is_long_pr) => \A i \in 1..Len(llm_log) :
                                  llm_log[i].prompt.kind = "short" /\ Len(llm_log) = 1
          /\ \A i, j \in 1..Len(llm_log) :
                 (i < j /\ is_long_pr) =>
                     KindRank(llm_log[i].prompt.kind) <= KindRank(llm_log[j].prompt.kind)
          /\ (pc \in {"create_final_review", "END"} /\ is_long_pr) =>
                 /\ Len(CallsOfKind("summary")) = Len(chunk_other_files(other_modified_files))
                 /\ (other_modified_files = <<>>) =>
                        CallsOfKind("summary") = <<>> /\ other_files_summary = <<>>
          /\ Len(CallsOfKind("final")) <= 1
          /\ (pc = "END" /\ is_long_pr) =>
                 /\ Len(CallsOfKind("final")) = 1
                 /\ llm_log[Len(llm_log)].prompt.kind = "final"
          /\ (pc = "review_batch") => current_batch # <<>>
          /\ \A i \in 1..Len(llm_log) :
                 (llm_log[i].prompt.kind = "batch") => llm_log[i].prompt.files # <<>>

C19_Witness ==
    /\ pc = "END"
    /\ is_long_pr
    /\ Len(CallsOfKind("batch")) >= 2
    /\ Len(CallsOfKind("summary")) >= 1
    /\ Len(CallsOfKind("final")) = 1

NameSet(ps) == { ps[i].filename : i \in 1..Len(ps) }

\* C20: in a long run the files organize_patches put in other_modified_files
\* and the files it put in a language bucket are disjoint; no overflow file is
\* ever in a batch or in a batch-review call, no bucket file is ever in an
\* overflow chunk or in a summary call, and a run that reaches END has put
\* every overflow file in a summary call.
C20_OverflowSummarizedNeverBatched ==
    is_long_pr =>
        LET placed == organize_patches(files)
            overflow == NameSet(placed.other)
            bucketed == NameSet(BucketFiles(placed.organized))
        IN  /\ other_modified_files = placed.other
            /\ overflow \cap bucketed = {}
            /\ NameSet(BucketFiles(organized_patches)) \subseteq bucketed
            /\ NameSet(current_batch) \subseteq bucketed \ overflow
            /\ \A i \in 1..Len(llm_log) :
                   /\ (llm_log[i].prompt.kind = "batch") =>
                          NameSet(llm_log[i].prompt.files) \subseteq bucketed \ overflow
                   /\ (llm_log[i].prompt.kind = "summary") =>
                          NameSet(llm_log[i].prompt.files) \subseteq overflow \ bucketed
            /\ \A k \in 1..Len(summary_chunks) :
                   NameSet(summary_chunks[k]) \subseteq overflow \ bucketed
            /\ (pc = "END") =>
                   overflow = UNION { NameSet(c.prompt.files) :
                                        c \in { llm_log[i] : i \in { j \in 1..Len(llm_log) :
                                                  llm_log[j].prompt.kind = "summary" } } }

C20_Witness ==
    /\ pc = "END"
    /\ is_long_pr
    /\ Len(other_modified_files) >= 1
    /\ Len(summary_chunks) >= 1
    /\ \E i \in 1..Len(llm_log) :
           llm_log[i].prompt.kind = "batch" /\ Len(llm_log[i].prompt.files) >= 1

\* Positions of the dots of a filename.
Dots(f) == { i \in 1..Len(f) : f[i] = "." }

\* The part after the last dot; a filename without a dot has no extension.
ExtensionOf(f) ==
    IF Dots(f) = {} THEN <<>>
    ELSE LET last == CHOOSE i \in Dots(f) : \A j \in Dots(f) : j <= i
         IN  SubSeq(f, last + 1, Len(f))

\* The language the static table gives an extension, "unknown" when absent.
TableLanguage(ext) ==
    IF \E k \in 1..Len(language_map) : language_map[k][1] = ext
    THEN language_map[CHOOSE k \in 1..Len(language_map) : language_map[k][1] = ext][2]
    ELSE "unknown"

\* C21: every FilePatch built by generate_pr_review carries the language the
\* table gives the part of its filename after the last dot, and "unknown" when
\* that part is not in the table or the filename has no dot.
C21_LanguageFromExtension ==
    pc = "patches_built" =>
        \A i \in 1..Len(files) :
            files[i].language = TableLanguage(ExtensionOf(files[i].filename))

\* C22: after organize_patches no overflow patch would still fit beside the
\* bucketed patches (their token total plus the patch's tokens exceeds
\* TOKEN_LIMIT), and every zero-token patch is in a bucket, not in overflow.
C22_OverflowWouldNotFit ==
    pc = "organized" =>
        /\ \A i \in 1..Len(other_modified_files) :
               SumTokens(BucketFiles(organized_patches))
                   + other_modified_files[i].tokens > TOKEN_LIMIT
        /\ \A i \in 1..Len(files) :
               count_tokens(files[i].content) = 0 =>
                   /\ Count(BucketFiles(organized_patches), files[i]) = 1
                   /\ Count(other_modified_files, files[i]) = 0

C22_Witness ==
    /\ pc = "organized"
    /\ \E i \in 1..Len(other_modified_files) :
           other_modified_files[i].tokens <= TOKEN_LIMIT
    /\ \E j \in 1..Len(BucketFiles(organized_patches)) :
           BucketFiles(organized_patches)[j].tokens = 0

====
